---- MODULE Spec2Model ----
(***************************************************************************)
(* Configuration resolution, connection building and OCI registry login of *)
(* the Helm provider: Meta.GetHelmConfiguration, OCIRegistryLogin,         *)
(* overridableData.Get / GetOk / GetOkExists and k8sGetOk.                 *)
(***************************************************************************)
EXTENDS Integers, Sequences, FiniteSets, TLC

\* Number of concurrent operations (goroutines calling into the provider).
NumProcs == 2
\* Total number of GetHelmConfiguration / OCIRegistryLogin calls started.
MaxCalls == 3

Procs == 1..NumProcs

\* The holder of a sync.Mutex that nobody holds (its zero value).
None == 0

-----------------------------------------------------------------------------
(* Values of configuration attributes (interface{}): a type tag and a text. *)

Nil == <<"nil", "">>
Str(s) == <<"string", s>>
Bool(b) == <<"bool", IF b THEN "true" ELSE "false">>
List(s) == <<"list", s>>

\* The attributes of the kubernetes block that the model resolves.
Keys == {"host", "insecure", "config_paths"}

\* Schema type of an attribute of kubernetesResource().
SchemaType(key) ==
    CASE key = "host" -> "string"
      [] key = "insecure" -> "bool"
      [] key = "config_paths" -> "list"

\* The zero value of a schema type, returned by Get for an attribute not set.
ZeroValue(t) ==
    CASE t = "string" -> Str("")
      [] t = "bool" -> Bool(FALSE)
      [] t = "list" -> List("")

\* kubernetesResource().Schema[key].DefaultFunc != nil
HasDefaultFunc(key) == key \in {"host", "insecure"}

\* The dv argument of schema.EnvDefaultFunc(envVar, dv) of an attribute.
EnvDefaultValue(key) ==
    CASE key = "host" -> Str("")
      [] key = "insecure" -> Bool(FALSE)
      [] OTHER -> Nil

\* What s.DefaultFunc() can return, as (value, error): the environment
\* variable's text when it is set, dv when it is not, or, as the
\* SchemaDefaultFunc signature allows, the boolean true or an error with
\* no value.
ProducerOutcomes(key) ==
    { [value |-> Str("e"), err |-> FALSE],
      [value |-> EnvDefaultValue(key), err |-> FALSE],
      [value |-> Bool(TRUE), err |-> FALSE],
      [value |-> Nil, err |-> TRUE] }

k8sPrefix == "kubernetes.0."

\* k8sPrefix + key
K8sPath(key) == k8sPrefix \o key

Paths == { K8sPath(k) : k \in Keys }

\* The attribute a path of the kubernetes block names.
KeyOf(path) == CHOOSE k \in Keys : K8sPath(k) = path

\* Values an attribute of a type can be set to.
ValuesOf(t) ==
    CASE t = "string" -> {Str(""), Str("a"), Str("b")}
      [] t = "bool" -> {Bool(FALSE), Bool(TRUE)}
      [] t = "list" -> {List(""), List("p")}

\* One attribute of a configuration source: whether the configuration sets
\* it and the value Get returns (the zero value when it is not set).
Cells(t) ==
    { [set |-> TRUE, val |-> v] : v \in ValuesOf(t) }
        \cup { [set |-> FALSE, val |-> ZeroValue(t)] }

\* All configuration sources (schema.ResourceData / schema.ResourceDiff).
Sources ==
    { s \in [Paths -> UNION { Cells(t) : t \in {"string", "bool", "list"} }] :
        \A path \in Paths : s[path] \in Cells(SchemaType(KeyOf(path))) }

\* dataGetter.Get
DataGet(src, path) == src[path].val

\* dataGetter.GetOk: set and not the zero value of the type.
DataGetOk(src, path) ==
    [value |-> src[path].val,
     ok |-> src[path].set /\ src[path].val # ZeroValue(SchemaType(KeyOf(path)))]

\* dataGetter.GetOkExists: set, whatever the value.
DataGetOkExists(src, path) ==
    [value |-> src[path].val, ok |-> src[path].set]

-----------------------------------------------------------------------------
(* overridableData{providerData, override}                                  *)

\* Faulty variant of Get: the provider's value takes precedence.
Get_BaseFirst(providerData, override, path) ==
    IF DataGetOk(providerData, path).ok
    THEN DataGet(providerData, path)
    ELSE DataGet(override, path)

\* func (o *overridableData) Get(key string) interface{}
Get(providerData, override, path) ==
    IF DataGetOk(override, path).ok
    THEN DataGetOk(override, path).value
    ELSE DataGet(providerData, path)

\* func (o *overridableData) GetOk(key string) (interface{}, bool)
GetOk(providerData, override, path) ==
    IF DataGetOk(override, path).ok
    THEN [value |-> DataGetOk(override, path).value, ok |-> TRUE]
    ELSE DataGetOk(providerData, path)

\* func (o *overridableData) GetOkExists(key string) (interface{}, bool)
GetOkExists(providerData, override, path) ==
    IF DataGetOkExists(override, path).ok
    THEN [value |-> DataGetOkExists(override, path).value, ok |-> TRUE]
    ELSE DataGetOkExists(providerData, path)

\* Faulty variant of k8sGetOk: no GetOkExists for boolean attributes.
k8sGetOk_NoBoolCase(providerData, override, key, producers) ==
    LET first == GetOk(providerData, override, K8sPath(key))
    IN  IF ~first.ok /\ HasDefaultFunc(key)
        THEN LET v == producers[key].value
             IN  [value |-> v,
                  ok |-> CASE v[1] = "string" -> v[2] # ""
                           [] v[1] = "bool" -> v[2] = "true"
                           [] OTHER -> first.ok,
                  err |-> FALSE]
        ELSE [value |-> first.value, ok |-> first.ok, err |-> FALSE]

\* Faulty variant of k8sGetOk: whatever the DefaultFunc returns counts as
\* present.
k8sGetOk_DefaultAlwaysPresent(providerData, override, key, producers) ==
    LET first == GetOk(providerData, override, K8sPath(key))
        second == IF first.value[1] = "bool"
                  THEN GetOkExists(providerData, override, K8sPath(key))
                  ELSE first
    IN  IF ~second.ok /\ HasDefaultFunc(key)
        THEN [value |-> producers[key].value, ok |-> TRUE, err |-> FALSE]
        ELSE [value |-> second.value, ok |-> second.ok, err |-> FALSE]

\* func k8sGetOk(d dataGetter, key string) (interface{}, bool), with d an
\* overridableData. The function has no error result: err is what the
\* caller can learn of a failure, and the error of s.DefaultFunc() is
\* discarded (value, _ = s.DefaultFunc()).
k8sGetOk(providerData, override, key, producers) ==
    LET first == GetOk(providerData, override, K8sPath(key))
        second == IF first.value[1] = "bool"
                  THEN GetOkExists(providerData, override, K8sPath(key))
                  ELSE first
    IN  IF ~second.ok /\ HasDefaultFunc(key)
        THEN LET v == producers[key].value
             IN  [value |-> v,
                  ok |-> CASE v[1] = "string" -> v[2] # ""
                           [] v[1] = "bool" -> v[2] = "true"
                           [] OTHER -> second.ok,
                  err |-> FALSE]
        ELSE [value |-> second.value, ok |-> second.ok, err |-> FALSE]

-----------------------------------------------------------------------------
(* Repository and chart references: the scheme before "://" and the         *)
(* authority after it. The empty string is <<"", "">>.                      *)

EmptyRef == <<"", "">>
OciA == <<"oci", "a.io">>
OciB == <<"oci", "b.io">>
HttpsA == <<"https", "a.io">>
PlainChart == <<"", "mychart">>
\* "oci://%": registry-addressed, and url.Parse rejects the escape.
BadOci == <<"oci", "%">>

Hosts == {"a.io", "b.io"}

\* registry.IsOCI(url): strings.HasPrefix(url, "oci://")
IsOCI(ref) == ref[1] = "oci"

\* url.Parse(ociURL): the error, or the URL's Host.
UrlParse(ref) == [ok |-> ref[2] # "%", Host |-> ref[2]]

\* The registry's answer to registryClient.Login(host, BasicAuth(u, pw)).
LoginAccepted(host, username, password) ==
    host \in Hosts /\ username = "u" /\ password = "good"

\* registryClient.Login(host, ...) is invoked: the registry sees one more
\* handshake for the host.
CountLogin(calls, host, username, password) ==
    IF LoginAccepted(host, username, password)
    THEN [calls EXCEPT ![host].accepted = @ + 1]
    ELSE [calls EXCEPT ![host].rejected = @ + 1]

\* What d holds for repository, chart, repository_username and
\* repository_password in a call of OCIRegistryLogin.
LoginCalls ==
    { [repository |-> OciA, chart |-> PlainChart, username |-> "u", password |-> "good"],
      [repository |-> OciA, chart |-> PlainChart, username |-> "u", password |-> "bad"],
      [repository |-> OciA, chart |-> PlainChart, username |-> "", password |-> ""],
      [repository |-> OciA, chart |-> PlainChart, username |-> "u", password |-> ""],
      [repository |-> OciA, chart |-> PlainChart, username |-> "", password |-> "good"],
      [repository |-> OciA, chart |-> OciB, username |-> "u", password |-> "good"],
      [repository |-> HttpsA, chart |-> OciB, username |-> "u", password |-> "good"],
      [repository |-> HttpsA, chart |-> PlainChart, username |-> "u", password |-> "good"],
      [repository |-> BadOci, chart |-> PlainChart, username |-> "u", password |-> "good"] }

NoLoginCall ==
    [repository |-> EmptyRef, chart |-> EmptyRef, username |-> "", password |-> ""]

\* Faulty variant of OciURL: the chart reference is looked at first.
OciURL_ChartFirst(c) ==
    IF IsOCI(c.chart) THEN c.chart
    ELSE IF IsOCI(c.repository) THEN c.repository
    ELSE EmptyRef

\* The ociURL of lines 67-72.
OciURL(c) ==
    IF IsOCI(c.repository) THEN c.repository
    ELSE IF IsOCI(c.chart) THEN c.chart
    ELSE EmptyRef

-----------------------------------------------------------------------------
(* Provider state                                                           *)

\* The driver names actionConfig.Init recognizes.
RecognizedDrivers == {"memory", "configmap", "secret", "sql"}

\* A source that sets nothing.
EmptySource == [path \in Paths |-> [set |-> FALSE, val |-> ZeroValue(SchemaType(KeyOf(path)))]]

\* A source with the given attributes set.
SourceWith(cells) ==
    [path \in Paths |-> IF KeyOf(path) \in DOMAIN cells
                        THEN [set |-> TRUE, val |-> cells[KeyOf(path)]]
                        ELSE EmptySource[path]]

\* The per-operation sources handed to GetHelmConfiguration.
BuildOverrides ==
    { EmptySource, SourceWith([host |-> Str("b"), insecure |-> Bool(FALSE)]) }

\* The provider configurations and environments the concurrent model
\* starts from: the provider block, helm_driver and the default producers.
ProviderSetups ==
    { [d |-> SourceWith([host |-> Str("a"), insecure |-> Bool(TRUE)]),
       driver |-> "secret",
       manifest |-> TRUE,
       producers |-> [k \in Keys |-> [value |-> EnvDefaultValue(k), err |-> FALSE]]],
      [d |-> EmptySource,
       driver |-> "SECRET",
       manifest |-> FALSE,
       producers |-> [k \in Keys |-> IF k = "host" THEN [value |-> Nil, err |-> TRUE]
                                     ELSE [value |-> EnvDefaultValue(k), err |-> FALSE]]] }

\* func providerConfigure(d, terraformVersion): the Meta it returns.
providerConfigure(d, driver, manifest) ==
    [data |-> d, HelmDriver |-> driver, experiments |-> [manifest |-> manifest]]

\* No *action.Configuration (nil).
NoActionConfig == [init |-> FALSE, kc |-> <<>>, driver |-> "", RegistryClient |-> FALSE]

\* The *action.Configuration a caller hands to OCIRegistryLogin.
CallerActionConfig == [init |-> TRUE, kc |-> <<>>, driver |-> "", RegistryClient |-> FALSE]

\* newKubeConfig(&overridableData{m.data, d}, &namespace): the resolved
\* attributes of the kubernetes block.
newKubeConfig(providerData, override, producers) ==
    [k \in Keys |-> k8sGetOk(providerData, override, k, producers)]

\* The results actionConfig.Init(kc, namespace, m.HelmDriver, debug) can have.
InitOutcomes(driver) ==
    IF driver \in RecognizedDrivers THEN {"ok", "err"} ELSE {"err"}

\* Faulty variant of OCILoginMutex: logins lock the Meta's mutex.
OCILoginMutex_SharedWithMeta == "Meta.Mutex"

\* The Meta's embedded sync.Mutex.
MetaMutex == "Meta.Mutex"

\* var OCILoginMutex sync.Mutex
OCILoginMutex == "OCILoginMutex"

Mutexes == {MetaMutex, OCILoginMutex}

VARIABLES
    pc,             \* where each operation is
    args,           \* the arguments of its current (or last) call
    override,       \* the override source of its current (or last) build
    result,         \* what its last call returned ("none" while in a call)
    loginHost,      \* u.Host of its current login
    shook,          \* whether its current (or last) call invoked Login
    actionConfig,   \* the *action.Configuration its current (or last) call
                    \* was given (login) or returned (build)
    locks,          \* holder of each mutex
    loggedInOCIRegistries,
    loginCalls,     \* per host, the invocations of registryClient.Login
                    \* with credentials the registry accepts and rejects
    meta,           \* the provider's *Meta
    producers,      \* what each attribute's DefaultFunc returns
    ncalls,         \* calls started
    rIn,            \* inputs of a resolution (resolution specification)
    rOut            \* its outputs

vars ==
    <<pc, args, override, result, loginHost, shook, actionConfig, locks,
      loggedInOCIRegistries, loginCalls, meta, producers, ncalls, rIn, rOut>>

resolveVars == <<rIn, rOut>>

sharedVars == <<loggedInOCIRegistries, loginCalls>>

NoResolution == [op |-> "none"]

Init ==
    /\ pc = [p \in Procs |-> "idle"]
    /\ args = [p \in Procs |-> NoLoginCall]
    /\ override = [p \in Procs |-> EmptySource]
    /\ result = [p \in Procs |-> "none"]
    /\ loginHost = [p \in Procs |-> ""]
    /\ shook = [p \in Procs |-> FALSE]
    /\ actionConfig = [p \in Procs |-> NoActionConfig]
    /\ locks = [m \in Mutexes |-> None]
    /\ loggedInOCIRegistries = {}
    /\ loginCalls = [h \in Hosts |-> [accepted |-> 0, rejected |-> 0]]
    /\ \E s \in ProviderSetups :
          /\ meta = providerConfigure(s.d, s.driver, s.manifest)
          /\ producers = s.producers
    /\ ncalls = 0
    /\ rIn = NoResolution
    /\ rOut = NoResolution

-----------------------------------------------------------------------------
(* func OCIRegistryLogin(actionConfig, d) error                             *)

\* Faulty variant of the prelude: logs in without credentials too.
OCIRegistryLoginPrelude_NoCredentialCheck(c, clientOk) ==
    IF ~clientOk THEN "err_client"
    ELSE IF OciURL(c) = EmptyRef THEN "ok"
    ELSE IF ~UrlParse(OciURL(c)).ok THEN "err_parse"
    ELSE "lock"

\* Faulty variant of the prelude: one credential is enough to log in.
OCIRegistryLoginPrelude_EitherCredential(c, clientOk) ==
    IF ~clientOk THEN "err_client"
    ELSE IF OciURL(c) = EmptyRef THEN "ok"
    ELSE IF ~(c.username # "" \/ c.password # "") THEN "ok"
    ELSE IF ~UrlParse(OciURL(c)).ok THEN "err_parse"
    ELSE "lock"

\* Faulty variant of the prelude: no registry.IsOCI test, the repository
\* is logged into whatever its scheme.
OCIRegistryLoginPrelude_LoginAnyRef(c, clientOk) ==
    IF ~clientOk THEN "err_client"
    ELSE IF ~(c.username # "" /\ c.password # "") THEN "ok"
    ELSE IF ~UrlParse(c.repository).ok THEN "err_parse"
    ELSE "lock"

\* Lines 58-83: what the call does before it takes OCILoginMutex: the error
\* or nil it returns at once, or "lock" when it goes on to log in.
OCIRegistryLoginPrelude(c, clientOk) ==
    IF ~clientOk THEN "err_client"
    ELSE IF OciURL(c) = EmptyRef THEN "ok"
    ELSE IF ~(c.username # "" /\ c.password # "") THEN "ok"
    ELSE IF ~UrlParse(OciURL(c)).ok THEN "err_parse"
    ELSE "lock"

\* A call starts; registry.NewClient() succeeds or fails (clientOk).
OCIRegistryLoginEnter(p, c, clientOk) ==
    /\ pc[p] = "idle"
    /\ ncalls < MaxCalls
    /\ ncalls' = ncalls + 1
    /\ args' = [args EXCEPT ![p] = c]
    /\ shook' = [shook EXCEPT ![p] = FALSE]
    /\ actionConfig' = [actionConfig EXCEPT ![p] =
                            [CallerActionConfig EXCEPT !.RegistryClient = clientOk]]
    /\ LET r == OCIRegistryLoginPrelude(c, clientOk)
       IN  IF r = "lock"
           THEN /\ pc' = [pc EXCEPT ![p] = "ol_lock"]
                /\ loginHost' = [loginHost EXCEPT ![p] = UrlParse(OciURL(c)).Host]
                /\ result' = [result EXCEPT ![p] = "none"]
           ELSE /\ pc' = pc
                /\ loginHost' = [loginHost EXCEPT ![p] = ""]
                /\ result' = [result EXCEPT ![p] = r]
    /\ UNCHANGED <<override, locks, sharedVars, meta, producers, resolveVars>>

\* Faulty variant of OCILoginMutexLock: a lock per caller, nobody waits.
OCILoginMutexLock_NoExclusion(p) ==
    /\ pc[p] = "ol_lock"
    /\ locks' = [locks EXCEPT ![OCILoginMutex] = p]
    /\ pc' = [pc EXCEPT ![p] = "ol_check"]
    /\ UNCHANGED <<args, override, result, loginHost, shook, actionConfig,
                   sharedVars, meta, producers, ncalls, resolveVars>>

\* OCILoginMutex.Lock()
OCILoginMutexLock(p) ==
    /\ pc[p] = "ol_lock"
    /\ locks[OCILoginMutex] = None
    /\ locks' = [locks EXCEPT ![OCILoginMutex] = p]
    /\ pc' = [pc EXCEPT ![p] = "ol_check"]
    /\ UNCHANGED <<args, override, result, loginHost, shook, actionConfig,
                   sharedVars, meta, producers, ncalls, resolveVars>>

\* Faulty variant of OCIAlreadyLoggedIn: Login is invoked without looking
\* the host up in loggedInOCIRegistries.
OCIAlreadyLoggedIn_NoCheck(p) ==
    /\ pc[p] = "ol_check"
    /\ pc' = [pc EXCEPT ![p] = "ol_login"]
    /\ loginCalls' = CountLogin(loginCalls, loginHost[p], args[p].username, args[p].password)
    /\ shook' = [shook EXCEPT ![p] = TRUE]
    /\ UNCHANGED <<result, locks, loggedInOCIRegistries>>
    /\ UNCHANGED <<args, override, loginHost, actionConfig, meta, producers,
                   ncalls, resolveVars>>

\* Lines 87-92: under the lock, return nil when the host is recorded,
\* otherwise invoke registryClient.Login.
OCIAlreadyLoggedIn(p) ==
    /\ pc[p] = "ol_check"
    /\ IF loginHost[p] \in loggedInOCIRegistries
       THEN /\ pc' = [pc EXCEPT ![p] = "idle"]
            /\ result' = [result EXCEPT ![p] = "ok"]
            /\ locks' = [locks EXCEPT ![OCILoginMutex] = None]
            /\ UNCHANGED <<loginCalls, shook>>
       ELSE /\ pc' = [pc EXCEPT ![p] = "ol_login"]
            /\ loginCalls' = CountLogin(loginCalls, loginHost[p], args[p].username, args[p].password)
            /\ shook' = [shook EXCEPT ![p] = TRUE]
            /\ UNCHANGED <<result, locks>>
    /\ UNCHANGED loggedInOCIRegistries
    /\ UNCHANGED <<args, override, loginHost, actionConfig, meta, producers,
                   ncalls, resolveVars>>

\* Faulty variant of OCILoginReturn: the host is recorded before the error
\* of Login is looked at.
OCILoginReturn_RecordFailure(p) ==
    /\ pc[p] = "ol_login"
    /\ loggedInOCIRegistries' = loggedInOCIRegistries \cup {loginHost[p]}
    /\ result' = [result EXCEPT ![p] =
                    IF LoginAccepted(loginHost[p], args[p].username, args[p].password)
                    THEN "ok" ELSE "err_login"]
    /\ pc' = [pc EXCEPT ![p] = "idle"]
    /\ locks' = [locks EXCEPT ![OCILoginMutex] = None]
    /\ UNCHANGED <<args, override, loginHost, shook, actionConfig, loginCalls,
                   meta, producers, ncalls, resolveVars>>

\* Lines 91-97 and the deferred Unlock: registryClient.Login returns.
OCILoginReturn(p) ==
    /\ pc[p] = "ol_login"
    /\ IF LoginAccepted(loginHost[p], args[p].username, args[p].password)
       THEN /\ loggedInOCIRegistries' = loggedInOCIRegistries \cup {loginHost[p]}
            /\ result' = [result EXCEPT ![p] = "ok"]
       ELSE /\ UNCHANGED loggedInOCIRegistries
            /\ result' = [result EXCEPT ![p] = "err_login"]
    /\ pc' = [pc EXCEPT ![p] = "idle"]
    /\ locks' = [locks EXCEPT ![OCILoginMutex] = None]
    /\ UNCHANGED <<args, override, loginHost, shook, actionConfig, loginCalls,
                   meta, producers, ncalls, resolveVars>>

-----------------------------------------------------------------------------
(* func (m *Meta) GetHelmConfiguration(d, namespace)                        *)

\* A call starts.
GetHelmConfigurationEnter(p, d) ==
    /\ pc[p] = "idle"
    /\ ncalls < MaxCalls
    /\ ncalls' = ncalls + 1
    /\ override' = [override EXCEPT ![p] = d]
    /\ args' = [args EXCEPT ![p] = NoLoginCall]
    /\ shook' = [shook EXCEPT ![p] = FALSE]
    /\ loginHost' = [loginHost EXCEPT ![p] = ""]
    /\ result' = [result EXCEPT ![p] = "none"]
    /\ actionConfig' = [actionConfig EXCEPT ![p] = NoActionConfig]
    /\ pc' = [pc EXCEPT ![p] = "gh_lock"]
    /\ UNCHANGED <<locks, sharedVars, meta, producers, resolveVars>>

\* Faulty variant of MetaLock: the call goes on without waiting.
MetaLock_NoExclusion(p) ==
    /\ pc[p] = "gh_lock"
    /\ locks' = [locks EXCEPT ![MetaMutex] = p]
    /\ pc' = [pc EXCEPT ![p] = "gh_kube"]
    /\ UNCHANGED <<args, override, result, loginHost, shook, actionConfig,
                   sharedVars, meta, producers, ncalls, resolveVars>>

\* m.Lock()
MetaLock(p) ==
    /\ pc[p] = "gh_lock"
    /\ locks[MetaMutex] = None
    /\ locks' = [locks EXCEPT ![MetaMutex] = p]
    /\ pc' = [pc EXCEPT ![p] = "gh_kube"]
    /\ UNCHANGED <<args, override, result, loginHost, shook, actionConfig,
                   sharedVars, meta, producers, ncalls, resolveVars>>

\* Faulty variant of GetHelmConfigurationKubeConfig: Unlock is not deferred
\* and the error return keeps the lock.
GetHelmConfigurationKubeConfig_LeakOnError(p, ok) ==
    /\ pc[p] = "gh_kube"
    /\ IF ok
       THEN /\ pc' = [pc EXCEPT ![p] = "gh_init"]
            /\ UNCHANGED <<result, locks>>
       ELSE /\ pc' = [pc EXCEPT ![p] = "idle"]
            /\ result' = [result EXCEPT ![p] = "err_kube"]
            /\ UNCHANGED locks
    /\ UNCHANGED <<args, override, loginHost, shook, actionConfig, sharedVars,
                   meta, producers, ncalls, resolveVars>>

\* Lines 28-34 and the deferred Unlock: newKubeConfig returns kc or an error.
GetHelmConfigurationKubeConfig(p, ok) ==
    /\ pc[p] = "gh_kube"
    /\ IF ok
       THEN /\ pc' = [pc EXCEPT ![p] = "gh_init"]
            /\ UNCHANGED <<result, locks>>
       ELSE /\ pc' = [pc EXCEPT ![p] = "idle"]
            /\ result' = [result EXCEPT ![p] = "err_kube"]
            /\ locks' = [locks EXCEPT ![MetaMutex] = None]
    /\ UNCHANGED <<args, override, loginHost, shook, actionConfig, sharedVars,
                   meta, producers, ncalls, resolveVars>>

\* Faulty variant of GetHelmConfigurationInit: the error of actionConfig.Init
\* is not looked at and the configuration is returned.
GetHelmConfigurationInit_IgnoresError(p, outcome) ==
    /\ pc[p] = "gh_init"
    /\ outcome \in InitOutcomes(meta.HelmDriver)
    /\ actionConfig' = [actionConfig EXCEPT ![p] =
            [init |-> TRUE,
             kc |-> newKubeConfig(meta.data, override[p], producers),
             driver |-> meta.HelmDriver,
             RegistryClient |-> FALSE]]
    /\ result' = [result EXCEPT ![p] = "ok"]
    /\ pc' = [pc EXCEPT ![p] = "idle"]
    /\ locks' = [locks EXCEPT ![MetaMutex] = None]
    /\ UNCHANGED <<args, override, loginHost, shook, sharedVars, meta,
                   producers, ncalls, resolveVars>>

\* Faulty variant of GetHelmConfigurationInit: a successful build keeps its
\* override source in the Meta (m.data = d).
GetHelmConfigurationInit_StoresOverride(p, outcome) ==
    /\ pc[p] = "gh_init"
    /\ outcome \in InitOutcomes(meta.HelmDriver)
    /\ IF outcome = "ok"
       THEN /\ actionConfig' = [actionConfig EXCEPT ![p] =
                   [init |-> TRUE,
                    kc |-> newKubeConfig(meta.data, override[p], producers),
                    driver |-> meta.HelmDriver,
                    RegistryClient |-> FALSE]]
            /\ result' = [result EXCEPT ![p] = "ok"]
            /\ meta' = [meta EXCEPT !.data = override[p]]
       ELSE /\ UNCHANGED <<actionConfig, meta>>
            /\ result' = [result EXCEPT ![p] = "err_init"]
    /\ pc' = [pc EXCEPT ![p] = "idle"]
    /\ locks' = [locks EXCEPT ![MetaMutex] = None]
    /\ UNCHANGED <<args, override, loginHost, shook, sharedVars,
                   producers, ncalls, resolveVars>>

\* Lines 36-41 and the deferred Unlock: actionConfig.Init returns.
GetHelmConfigurationInit(p, outcome) ==
    /\ pc[p] = "gh_init"
    /\ outcome \in InitOutcomes(meta.HelmDriver)
    /\ IF outcome = "ok"
       THEN /\ actionConfig' = [actionConfig EXCEPT ![p] =
                   [init |-> TRUE,
                    kc |-> newKubeConfig(meta.data, override[p], producers),
                    driver |-> meta.HelmDriver,
                    RegistryClient |-> FALSE]]
            /\ result' = [result EXCEPT ![p] = "ok"]
       ELSE /\ UNCHANGED actionConfig
            /\ result' = [result EXCEPT ![p] = "err_init"]
    /\ pc' = [pc EXCEPT ![p] = "idle"]
    /\ locks' = [locks EXCEPT ![MetaMutex] = None]
    /\ UNCHANGED <<args, override, loginHost, shook, sharedVars, meta,
                   producers, ncalls, resolveVars>>

Next ==
    \E p \in Procs :
        \/ \E c \in LoginCalls, clientOk \in BOOLEAN : OCIRegistryLoginEnter(p, c, clientOk)
        \/ OCILoginMutexLock(p)
        \/ OCIAlreadyLoggedIn(p)
        \/ OCILoginReturn(p)
        \/ \E d \in BuildOverrides : GetHelmConfigurationEnter(p, d)
        \/ MetaLock(p)
        \/ \E ok \in BOOLEAN : GetHelmConfigurationKubeConfig(p, ok)
        \/ \E outcome \in {"ok", "err"} : GetHelmConfigurationInit(p, outcome)

Spec == Init /\ [][Next]_vars

\* The steps of operation p that end a wait on a collaborator or run code
\* under a lock: the registry check, Login returning, newKubeConfig and
\* actionConfig.Init returning.
Returns(p) ==
    \/ OCIAlreadyLoggedIn(p)
    \/ OCILoginReturn(p)
    \/ \E ok \in BOOLEAN : GetHelmConfigurationKubeConfig(p, ok)
    \/ \E outcome \in {"ok", "err"} : GetHelmConfigurationInit(p, outcome)

\* The steps of operation p that take a lock.
Acquire(p) == OCILoginMutexLock(p) \/ MetaLock(p)

\* The calls of the liveness specification: what decides whether a caller
\* waits and returns is the path each call takes (returns at once, finds the
\* host recorded, handshake accepted or rejected; build failing in
\* newKubeConfig or in Init), not the variety of its arguments, so one call
\* per path is started.
LiveLoginCalls ==
    { c \in LoginCalls :
        \/ c.repository = OciA /\ c.chart = PlainChart /\ c.username = "u"
              /\ c.password \in {"good", "bad"}
        \/ c.repository = HttpsA /\ c.chart = OciB }

LiveNext ==
    \E p \in Procs :
        \/ \E c \in LiveLoginCalls, clientOk \in BOOLEAN : OCIRegistryLoginEnter(p, c, clientOk)
        \/ \E d \in {EmptySource} : GetHelmConfigurationEnter(p, d)
        \/ Acquire(p)
        \/ Returns(p)

\* Fair scheduling: a goroutine that can run does run, every collaborator
\* call returns, and a goroutine blocked in Lock() gets the mutex if it is
\* free again and again (sync.Mutex hands the lock to a starving waiter).
\* Callers are not obliged to start calls.
FairSpec ==
    /\ Init
    /\ [][LiveNext]_vars
    /\ \A p \in Procs : WF_vars(Returns(p)) /\ SF_vars(Acquire(p))

-----------------------------------------------------------------------------
(* Resolution on its own: one overridableData and one attribute, with every *)
(* accessor applied to it.                                                  *)

\* The inputs of a resolution: the provider's source, the override source,
\* the attribute and what its DefaultFunc returns.
ResolveInputs ==
    { [op |-> "in", providerData |-> b, override |-> o, key |-> k,
       producers |-> [kk \in Keys |-> pr]] :
        b \in Sources, o \in Sources, k \in Keys,
        pr \in UNION { ProducerOutcomes(kk) : kk \in Keys } }

ResolveInit ==
    /\ pc = [p \in Procs |-> "idle"]
    /\ args = [p \in Procs |-> NoLoginCall]
    /\ override = [p \in Procs |-> EmptySource]
    /\ result = [p \in Procs |-> "none"]
    /\ loginHost = [p \in Procs |-> ""]
    /\ shook = [p \in Procs |-> FALSE]
    /\ actionConfig = [p \in Procs |-> NoActionConfig]
    /\ locks = [m \in Mutexes |-> None]
    /\ loggedInOCIRegistries = {}
    /\ loginCalls = [h \in Hosts |-> [accepted |-> 0, rejected |-> 0]]
    /\ meta = providerConfigure(EmptySource, "secret", FALSE)
    /\ producers = [k \in Keys |-> [value |-> EnvDefaultValue(k), err |-> FALSE]]
    /\ ncalls = 0
    /\ rIn \in { i \in ResolveInputs : i.producers[i.key] \in ProducerOutcomes(i.key) }
    /\ rOut = NoResolution

concurrentVars ==
    <<pc, args, override, result, loginHost, shook, actionConfig, locks,
      loggedInOCIRegistries, loginCalls, meta, producers, ncalls>>

\* o.Get(k8sPrefix + key)
ResolveGet ==
    /\ rOut = NoResolution
    /\ rOut' = [op |-> "Get",
                value |-> Get(rIn.providerData, rIn.override, K8sPath(rIn.key)),
                ok |-> TRUE, err |-> FALSE]
    /\ UNCHANGED <<rIn, concurrentVars>>

\* o.GetOk(k8sPrefix + key)
ResolveGetOk ==
    /\ rOut = NoResolution
    /\ LET r == GetOk(rIn.providerData, rIn.override, K8sPath(rIn.key))
       IN  rOut' = [op |-> "GetOk", value |-> r.value, ok |-> r.ok, err |-> FALSE]
    /\ UNCHANGED <<rIn, concurrentVars>>

\* o.GetOkExists(k8sPrefix + key)
ResolveGetOkExists ==
    /\ rOut = NoResolution
    /\ LET r == GetOkExists(rIn.providerData, rIn.override, K8sPath(rIn.key))
       IN  rOut' = [op |-> "GetOkExists", value |-> r.value, ok |-> r.ok, err |-> FALSE]
    /\ UNCHANGED <<rIn, concurrentVars>>

\* k8sGetOk(o, key)
ResolveK8sGetOk ==
    /\ rOut = NoResolution
    /\ LET r == k8sGetOk(rIn.providerData, rIn.override, rIn.key, rIn.producers)
       IN  rOut' = [op |-> "k8sGetOk", value |-> r.value, ok |-> r.ok, err |-> r.err]
    /\ UNCHANGED <<rIn, concurrentVars>>

ResolveNext ==
    \/ ResolveGet
    \/ ResolveGetOk
    \/ ResolveGetOkExists
    \/ ResolveK8sGetOk

ResolveSpec == ResolveInit /\ [][ResolveNext]_vars

-----------------------------------------------------------------------------
(* Properties                                                               *)

\* The operation's last call has returned.
Done(p) == pc[p] = "idle" /\ result[p] # "none"

\* This step is operation p starting the login call whose arguments and
\* registry client its next state holds.
LoginStarts(p) ==
    /\ ncalls' # ncalls
    /\ pc[p] = "idle"
    /\ args'[p] \in LoginCalls
    /\ OCIRegistryLoginEnter(p, args'[p], actionConfig'[p].RegistryClient)

\* A login call for registry host h with credentials the registry accepts.
ValidLoginFor(c, h) ==
    /\ c \in LoginCalls
    /\ IF IsOCI(c.repository) THEN c.repository[2] = h
       ELSE IsOCI(c.chart) /\ c.chart[2] = h
    /\ LoginAccepted(h, c.username, c.password)

\* The operation is between m.Lock() and the deferred m.Unlock().
InBuild(p) == pc[p] \in {"gh_kube", "gh_init"}

\* The operation is between OCILoginMutex.Lock() and the deferred Unlock().
InLogin(p) == pc[p] \in {"ol_check", "ol_login"}

\* C1 as stated: every returned login call for a host with accepted
\* credentials has returned success, after exactly one handshake for the host.
C1_AllValidLoginsSucceed ==
    \A h \in Hosts : \A p \in Procs :
        Done(p) /\ ValidLoginFor(args[p], h)
            => result[p] = "ok" /\ loginCalls[h].accepted = 1

\* C1 (amended): for every host, Login is invoked with accepted credentials
\* at most once, whatever the interleaving; every returned call for the host
\* with accepted credentials whose registry client was created has returned
\* success, exactly one such handshake has run and the host is recorded; a
\* call whose registry client could not be created invoked no handshake.
C1_AtMostOnceLogin ==
    \A h \in Hosts :
        /\ loginCalls[h].accepted <= 1
        /\ \A p \in Procs :
              Done(p) /\ ValidLoginFor(args[p], h) =>
                  IF result[p] = "err_client"
                  THEN ~shook[p]
                  ELSE /\ result[p] = "ok"
                       /\ loginCalls[h].accepted = 1
                       /\ h \in loggedInOCIRegistries

\* Two calls for a.io with accepted credentials have both returned success
\* and one handshake was made, by one of them.
C1_Witness ==
    /\ \A p \in {1, 2} : Done(p) /\ ValidLoginFor(args[p], "a.io") /\ result[p] = "ok"
    /\ loginCalls["a.io"] = [accepted |-> 1, rejected |-> 0]
    /\ shook[1] # shook[2]

\* C2: at most one GetHelmConfiguration call is between configuration
\* resolution (newKubeConfig) and the end of actionConfig.Init.
C2_MutualExclusion ==
    \A p \in Procs : \A q \in Procs :
        p # q => ~(InBuild(p) /\ InBuild(q))

\* One call is initializing while another waits in m.Lock().
C2_Witness == pc[1] = "gh_init" /\ pc[2] = "gh_lock"

\* C3 as stated: a returned call for a host with accepted credentials, where
\* a handshake for the host was rejected, has made a new handshake and
\* returned success.
C3_RetryMakesNewHandshake ==
    \A h \in Hosts : \A p \in Procs :
        Done(p) /\ ValidLoginFor(args[p], h) /\ loginCalls[h].rejected >= 1
            => result[p] = "ok" /\ shook[p]

\* C3 (amended): a rejected handshake returns an error and records nothing
\* (a recorded host has had an accepted handshake); a returned call for the
\* host with accepted credentials, whose registry client was created, has
\* returned success and exactly one accepted handshake has run for the host
\* (its own, unless another call's came first).
C3_RetryAfterFailure ==
    \A h \in Hosts :
        /\ h \in loggedInOCIRegistries => loginCalls[h].accepted >= 1
        /\ \A p \in Procs :
              /\ Done(p) /\ shook[p] /\ loginHost[p] = h
                    /\ ~LoginAccepted(h, args[p].username, args[p].password)
                    => result[p] = "err_login"
              /\ Done(p) /\ ValidLoginFor(args[p], h) /\ loginCalls[h].rejected >= 1
                    /\ result[p] # "err_client"
                    => result[p] = "ok" /\ loginCalls[h].accepted = 1

\* A handshake for a.io was rejected and returned an error; a later call
\* with accepted credentials made a new handshake and returned success.
C3_Witness ==
    /\ Done(1) /\ result[1] = "err_login" /\ loginHost[1] = "a.io"
    /\ Done(2) /\ ValidLoginFor(args[2], "a.io") /\ shook[2] /\ result[2] = "ok"
    /\ loginCalls["a.io"] = [accepted |-> 1, rejected |-> 1]

\* C4 as stated: a returned login call whose repository and chart are both
\* not registry-addressed has returned success.
C4_NonRegistryAlwaysSucceeds ==
    \A p \in Procs :
        Done(p) /\ args[p] \in LoginCalls
                /\ ~IsOCI(args[p].repository) /\ ~IsOCI(args[p].chart)
            => result[p] = "ok"

\* C4 (amended): a login call whose repository and chart are both not
\* registry-addressed returns at once, whatever the credentials: success
\* when the registry client was created and the client's error otherwise,
\* with no handshake, the login registry unchanged and no lock taken.
C4_NonRegistryBypass ==
    [][\A c \in { x \in LoginCalls : ~IsOCI(x.repository) /\ ~IsOCI(x.chart) } :
       \A p \in Procs : \A clientOk \in BOOLEAN :
          ncalls' # ncalls /\ pc[p] = "idle" /\ OCIRegistryLoginEnter(p, c, clientOk)
          => /\ pc'[p] = "idle"
             /\ result'[p] = IF clientOk THEN "ok" ELSE "err_client"
             /\ ~shook'[p]
             /\ UNCHANGED <<loggedInOCIRegistries, loginCalls, locks>>]_vars

\* A call with credentials and no registry-addressed reference has returned
\* success without a handshake.
C4_Witness ==
    \E p \in Procs :
        /\ Done(p) /\ args[p] \in LoginCalls
        /\ ~IsOCI(args[p].repository) /\ ~IsOCI(args[p].chart)
        /\ args[p].username # "" /\ args[p].password # ""
        /\ result[p] = "ok" /\ ~shook[p]
        /\ loginCalls = [h \in Hosts |-> [accepted |-> 0, rejected |-> 0]]

\* The attribute cells of a resolution's two sources.
ROverrideCell == rIn.override[K8sPath(rIn.key)]
RBaseCell == rIn.providerData[K8sPath(rIn.key)]

C6_ExplicitFalseHonoured ==
    rOut.op = "k8sGetOk" /\ SchemaType(rIn.key) = "bool"
            /\ RBaseCell = [set |-> TRUE, val |-> Bool(TRUE)]
        => /\ ROverrideCell = [set |-> TRUE, val |-> Bool(FALSE)]
                => rOut.value = Bool(FALSE) /\ rOut.ok
           /\ ~ROverrideCell.set => rOut.value = Bool(TRUE) /\ rOut.ok

\* insecure: true in the base, false in the override, resolved to false.
C6_Witness ==
    /\ rOut.op = "k8sGetOk" /\ rIn.key = "insecure"
    /\ RBaseCell = [set |-> TRUE, val |-> Bool(TRUE)]
    /\ ROverrideCell = [set |-> TRUE, val |-> Bool(FALSE)]
    /\ rOut.value = Bool(FALSE) /\ rOut.ok

\* C7 as stated: a returned login call with a registry-addressed reference
\* and no credentials has returned success.
C7_AnonymousAlwaysSucceeds ==
    \A p \in Procs :
        Done(p) /\ args[p] \in LoginCalls
                /\ (IsOCI(args[p].repository) \/ IsOCI(args[p].chart))
                /\ args[p].username = "" /\ args[p].password = ""
            => result[p] = "ok"

\* C7 (amended): a login call with a registry-addressed reference and no
\* credentials returns at once: success when the registry client was created
\* and the client's error otherwise, with no handshake, no lock taken and
\* the host not added to the login registry.
C7_AnonymousAccess ==
    [][\A c \in { x \in LoginCalls : /\ IsOCI(x.repository) \/ IsOCI(x.chart)
                                     /\ x.username = "" /\ x.password = "" } :
       \A p \in Procs : \A clientOk \in BOOLEAN :
          ncalls' # ncalls /\ pc[p] = "idle" /\ OCIRegistryLoginEnter(p, c, clientOk)
          => /\ pc'[p] = "idle"
             /\ result'[p] = IF clientOk THEN "ok" ELSE "err_client"
             /\ ~shook'[p]
             /\ UNCHANGED <<loggedInOCIRegistries, loginCalls, locks>>]_vars

\* A call for oci://a.io without credentials has returned success; a.io
\* has seen no handshake and is not recorded.
C7_Witness ==
    \E p \in Procs :
        /\ Done(p) /\ args[p] \in LoginCalls
        /\ args[p].repository = OciA
        /\ args[p].username = "" /\ args[p].password = ""
        /\ result[p] = "ok" /\ ~shook[p]
        /\ "a.io" \notin loggedInOCIRegistries
        /\ loginCalls["a.io"] = [accepted |-> 0, rejected |-> 0]

\* C8: the Meta's lock is held only by a call that has not returned yet, on
\* every exit path (success, newKubeConfig failure, Init failure); when no
\* call is inside, the lock is free and a waiting call can enter.
C8_LockReleased ==
    /\ \A p \in Procs : (locks[MetaMutex] = p) <=> InBuild(p)
    /\ (\A p \in Procs : ~InBuild(p)) =>
           /\ locks[MetaMutex] = None
           /\ \A q \in Procs : pc[q] = "gh_lock" => ENABLED MetaLock(q)

\* A call failed in newKubeConfig and another call is inside after it.
C8_Witness ==
    /\ Done(1) /\ result[1] = "err_kube"
    /\ InBuild(2)

\* C9: OCILoginMutex and the Meta's lock are different locks: while a
\* handshake is in flight a waiting GetHelmConfiguration call can enter
\* (unless another build is inside), and while a build holds the Meta's lock
\* a waiting login can take OCILoginMutex (unless another login holds it).
C9_IndependentLocks ==
    \A p \in Procs : \A q \in Procs :
        /\ pc[p] = "ol_login" /\ pc[q] = "gh_lock" /\ (\A r \in Procs : ~InBuild(r))
              => ENABLED MetaLock(q)
        /\ InBuild(p) /\ pc[q] = "ol_lock" /\ (\A r \in Procs : ~InLogin(r))
              => ENABLED OCILoginMutexLock(q)

\* A build is inside its critical section while a handshake is in flight.
C9_Witness == pc[1] = "ol_login" /\ locks[OCILoginMutex] = 1 /\ pc[2] = "gh_init" /\ locks[MetaMutex] = 2

\* k8sGetOk falls back to the attribute's DefaultFunc in this resolution.
RFallbackRuns ==
    /\ HasDefaultFunc(rIn.key)
    /\ IF SchemaType(rIn.key) = "bool"
       THEN ~ROverrideCell.set /\ ~RBaseCell.set
       ELSE /\ ~DataGetOk(rIn.override, K8sPath(rIn.key)).ok
            /\ ~DataGetOk(rIn.providerData, K8sPath(rIn.key)).ok

ConfiguredMeta ==
    LET s == CHOOSE x \in ProviderSetups : x.producers = producers
    IN  providerConfigure(s.d, s.driver, s.manifest)

\* C11: no step of GetHelmConfiguration or OCIRegistryLogin, successful or
\* failed, changes the Meta's base configuration source, driver name or
\* experiment flags: they stay what providerConfigure set.
C11_ProviderStateUnchanged ==
    [](meta = ConfiguredMeta) /\ [][meta' = meta]_vars

\* A build has returned a handle, another call failed in newKubeConfig, and
\* the Meta is what providerConfigure returned.
C11_Witness ==
    /\ Done(1) /\ result[1] = "ok" /\ actionConfig[1].init
    /\ override[1] # meta.data
    /\ Done(2) /\ result[2] = "err_kube"
    /\ meta = ConfiguredMeta

\* The operation's current (or last) call is a GetHelmConfiguration call.
IsBuild(p) == args[p] = NoLoginCall /\ (pc[p] # "idle" \/ result[p] # "none")

CredentialedCallsFor(h) ==
    { c \in LoginCalls : /\ c.username # "" /\ c.password # ""
                         /\ OciURL(c) # EmptyRef
                         /\ UrlParse(OciURL(c)).ok
                         /\ UrlParse(OciURL(c)).Host = h }

\* The handshakes for host h, with accepted credentials, that are in flight.
AcceptedInFlight(h) ==
    { p \in Procs : /\ pc[p] = "ol_login" /\ loginHost[p] = h
                    /\ LoginAccepted(h, args[p].username, args[p].password) }

\* C13 as stated: a credentialed login call for a host that is recorded
\* when the call starts does not return an error.
C13_RecordedHostAlwaysSucceeds ==
    [][\A p \in Procs : \A h \in loggedInOCIRegistries :
          LoginStarts(p) /\ args'[p] \in CredentialedCallsFor(h)
          => result'[p] \in {"none", "ok"}]_vars

\* C13 (amended): a host is in loggedInOCIRegistries exactly when a
\* handshake for it with accepted credentials has completed; hosts are never
\* removed; a credentialed call for a recorded host, with the same or other
\* credentials, whose registry client was created goes to the lock and, once
\* inside, returns success without invoking Login; a call whose registry
\* client could not be created returns that error, also without a handshake.
C13_LoginRegistry ==
    /\ [](\A h \in Hosts :
            h \in loggedInOCIRegistries
                <=> loginCalls[h].accepted > Cardinality(AcceptedInFlight(h)))
    /\ [][/\ loggedInOCIRegistries \subseteq loggedInOCIRegistries'
          /\ \A p \in Procs :
                pc[p] = "ol_check" /\ pc'[p] # "ol_check"
                   /\ loginHost[p] \in loggedInOCIRegistries
                => /\ pc'[p] = "idle" /\ result'[p] = "ok" /\ ~shook'[p]
                   /\ loginCalls' = loginCalls
          /\ \A p \in Procs : \A h \in loggedInOCIRegistries :
                LoginStarts(p) /\ args'[p] \in CredentialedCallsFor(h)
                => /\ loginCalls' = loginCalls
                   /\ IF actionConfig'[p].RegistryClient
                      THEN pc'[p] = "ol_lock" /\ loginHost'[p] = h
                      ELSE pc'[p] = "idle" /\ result'[p] = "err_client"]_vars

\* a.io was recorded by one accepted handshake; a later call for a.io with
\* credentials the registry would reject has returned success without a
\* handshake.
C13_Witness ==
    /\ "a.io" \in loggedInOCIRegistries
    /\ loginCalls["a.io"] = [accepted |-> 1, rejected |-> 0]
    /\ \E p \in Procs :
          /\ Done(p) /\ args[p] \in CredentialedCallsFor("a.io")
          /\ args[p].password = "bad"
          /\ result[p] = "ok" /\ ~shook[p]

\* C14: OCILoginMutex is held by the caller for the whole handshake, so at
\* most one handshake is in flight at any time, across all hosts; while one
\* is in flight, a login waiting for the lock, for any host, cannot go on
\* to its own handshake.
C14_OneHandshakeInFlight ==
    \A p \in Procs :
        pc[p] = "ol_login" =>
            /\ locks[OCILoginMutex] = p
            /\ \A q \in Procs :
                  q # p => /\ pc[q] # "ol_login"
                           /\ pc[q] # "ol_check"
                           /\ pc[q] = "ol_lock" => ~ENABLED OCILoginMutexLock(q)

\* The first handshake for a.io is in flight; a first login to b.io waits
\* for the lock.
C14_Witness ==
    /\ pc[1] = "ol_login" /\ loginHost[1] = "a.io"
    /\ pc[2] = "ol_lock" /\ loginHost[2] = "b.io"
    /\ loggedInOCIRegistries = {}

\* C15: the host a login call locks for, logs into and records is the
\* repository reference's host when the repository is registry-addressed,
\* and the chart reference's host only when the repository is not and the
\* chart is; with both registry-addressed and different hosts it is the
\* repository's host.
C15_RepositoryHostFirst ==
    \A p \in Procs :
        args[p] \in LoginCalls
            /\ (pc[p] \in {"ol_lock", "ol_check", "ol_login"} \/ (Done(p) /\ shook[p]))
        => /\ IF IsOCI(args[p].repository)
              THEN loginHost[p] = args[p].repository[2]
              ELSE IsOCI(args[p].chart) /\ loginHost[p] = args[p].chart[2]
           /\ shook[p] => loginCalls[loginHost[p]].accepted
                              + loginCalls[loginHost[p]].rejected >= 1
           /\ Done(p) /\ result[p] = "ok" => loginHost[p] \in loggedInOCIRegistries

\* A call with repository oci://a.io and chart oci://b.io has logged in:
\* a.io is recorded, b.io has seen no handshake.
C15_Witness ==
    \E p \in Procs :
        /\ Done(p) /\ args[p] \in LoginCalls
        /\ args[p].repository = OciA /\ args[p].chart = OciB
        /\ shook[p] /\ result[p] = "ok"
        /\ loggedInOCIRegistries = {"a.io"}
        /\ loginCalls["b.io"] = [accepted |-> 0, rejected |-> 0]

\* C16: for an attribute with a DefaultFunc, when the lookup of k8sGetOk
\* (GetOkExists for a boolean, GetOk otherwise) finds it in neither source,
\* the value returned is what the DefaultFunc returned and it is present
\* exactly when that is a non-empty string or the boolean true; when the
\* lookup finds it, the value found is returned as present, whatever the
\* DefaultFunc returns.
C16_DefaultFallback ==
    rOut.op = "k8sGetOk" /\ HasDefaultFunc(rIn.key)
        => LET v == rIn.producers[rIn.key].value
               inOverride ==
                   IF SchemaType(rIn.key) = "bool"
                   THEN ROverrideCell.set
                   ELSE DataGetOk(rIn.override, K8sPath(rIn.key)).ok
           IN  IF RFallbackRuns
               THEN /\ rOut.value = v
                    /\ rOut.ok <=> \/ v[1] = "string" /\ v[2] # ""
                                   \/ v = Bool(TRUE)
               ELSE /\ rOut.ok
                    /\ rOut.value = IF inOverride THEN ROverrideCell.val
                                    ELSE RBaseCell.val

\* host is set in neither source and its DefaultFunc returns the
\* environment's text: that text is returned, as present.
C16_Witness ==
    /\ rOut.op = "k8sGetOk" /\ rIn.key = "host"
    /\ ~ROverrideCell.set /\ ~RBaseCell.set
    /\ rIn.producers["host"] = [value |-> Str("e"), err |-> FALSE]
    /\ rOut.value = Str("e") /\ rOut.ok

\* Some step of a call that has started is enabled.
CallCanProgress ==
    \E q \in Procs :
        \/ ENABLED OCILoginMutexLock(q)
        \/ ENABLED OCIAlreadyLoggedIn(q)
        \/ ENABLED OCILoginReturn(q)
        \/ ENABLED MetaLock(q)
        \/ \E ok \in BOOLEAN : ENABLED GetHelmConfigurationKubeConfig(q, ok)
        \/ \E outcome \in {"ok", "err"} : ENABLED GetHelmConfigurationInit(q, outcome)

\* C17: no operation holds the Meta's lock and OCILoginMutex together, a
\* lock is held only inside its own function's critical section, and
\* whenever a call has not returned some call can take a step: no
\* interleaving of builds and logins ends with callers waiting on each other.
C17_NoLockOrderDeadlock ==
    /\ \A p \in Procs :
          /\ ~(locks[MetaMutex] = p /\ locks[OCILoginMutex] = p)
          /\ locks[MetaMutex] = p => InBuild(p)
          /\ locks[OCILoginMutex] = p => InLogin(p)
    /\ (\E p \in Procs : pc[p] # "idle") => CallCanProgress

\* Both locks are held, by different operations, right after each took its
\* own.
C17_Witness ==
    /\ pc[1] = "gh_kube" /\ locks[MetaMutex] = 1
    /\ pc[2] = "ol_check" /\ locks[OCILoginMutex] = 2

\* C18: under fair scheduling, with every handshake, newKubeConfig and
\* actionConfig.Init returning, every call that has started returns; in
\* particular every caller waiting for a lock gets it.
C18_EveryCallReturns ==
    \A p \in Procs : (pc[p] # "idle") ~> Done(p)

\* A login waits for OCILoginMutex while another call's handshake is in
\* flight, and no further call will be started.
C18_Witness ==
    /\ pc[1] = "ol_lock" /\ pc[2] = "ol_login"
    /\ locks[OCILoginMutex] = 2
    /\ ncalls = MaxCalls

\* The login calls that need no login: no registry-addressed reference, or
\* a credential missing.
NoLoginNeededCalls ==
    { c \in LoginCalls : \/ ~IsOCI(c.repository) /\ ~IsOCI(c.chart)
                         \/ c.username = ""
                         \/ c.password = "" }

\* C19 as stated: a call that needs no login, started while another call
\* holds OCILoginMutex, returns success.
C19_BypassAlwaysSucceeds ==
    [][\A p \in Procs :
          locks[OCILoginMutex] # None /\ LoginStarts(p)
             /\ args'[p] \in NoLoginNeededCalls
          => result'[p] = "ok"]_vars

\* C19 (amended): while another call's handshake is in flight, for as long
\* as it stays there, a call that needs no login can start and returns in
\* its first step without taking or waiting for OCILoginMutex: success when
\* its registry client was created, the client's error otherwise.
C19_LockFreeBypass ==
    /\ [](\A p \in Procs : \A q \in Procs :
            pc[q] = "ol_login" /\ pc[p] = "idle" /\ ncalls < MaxCalls
            => \A c \in NoLoginNeededCalls : ENABLED OCIRegistryLoginEnter(p, c, TRUE))
    /\ [][\A p \in Procs :
             locks[OCILoginMutex] # None /\ LoginStarts(p)
                /\ args'[p] \in NoLoginNeededCalls
             => /\ pc'[p] = "idle"
                /\ result'[p] = IF actionConfig'[p].RegistryClient
                                THEN "ok" ELSE "err_client"
                /\ locks' = locks]_vars

\* A handshake is in flight under the lock and a call that needs no login
\* has returned success.
C19_Witness ==
    /\ pc[2] = "ol_login" /\ locks[OCILoginMutex] = 2
    /\ Done(1) /\ args[1] \in NoLoginNeededCalls
    /\ result[1] = "ok" /\ ~shook[1]

\* The registry-addressed login calls with exactly one of username and
\* password.
PartialCredentialCalls ==
    { c \in LoginCalls : /\ IsOCI(c.repository) \/ IsOCI(c.chart)
                         /\ (c.username = "") # (c.password = "") }

\* C20 as stated: a returned call for a registry-addressed reference with
\* only a username or only a password has returned success.
C20_PartialAlwaysSucceeds ==
    \A p \in Procs :
        Done(p) /\ args[p] \in PartialCredentialCalls => result[p] = "ok"

\* C20 (amended): Login is invoked only by calls with both a username and a
\* password; a call for a registry-addressed reference with only one of
\* them returns at once, success when its registry client was created and
\* the client's error otherwise, with no handshake, no lock taken and the
\* login registry unchanged.
C20_BothCredentialsRequired ==
    /\ [](\A p \in Procs :
            shook[p] \/ pc[p] \in {"ol_lock", "ol_check", "ol_login"}
                => args[p].username # "" /\ args[p].password # "")
    /\ [][\A p \in Procs :
             LoginStarts(p) /\ args'[p] \in PartialCredentialCalls
             => /\ pc'[p] = "idle"
                /\ result'[p] = IF actionConfig'[p].RegistryClient
                                THEN "ok" ELSE "err_client"
                /\ ~shook'[p]
                /\ UNCHANGED <<loggedInOCIRegistries, loginCalls, locks>>]_vars

\* A call for oci://a.io with a password and no username has returned
\* success, and another with a username and no password; a.io has seen no
\* handshake and is not recorded.
C20_Witness ==
    /\ Done(1) /\ args[1] \in PartialCredentialCalls /\ args[1].username = ""
    /\ Done(2) /\ args[2] \in PartialCredentialCalls /\ args[2].password = ""
    /\ result[1] = "ok" /\ result[2] = "ok"
    /\ ~shook[1] /\ ~shook[2]
    /\ loggedInOCIRegistries = {}
    /\ loginCalls["a.io"] = [accepted |-> 0, rejected |-> 0]

====
